---- MODULE Spec2Model ----
(***************************************************************************)
(* The ManyToOne diode of many_to_one.go: a ring buffer written by many    *)
(* goroutines (Set) and read by one (TryNext).                             *)
(*                                                                         *)
(* Every atomic access of the source (sync/atomic call, RWMutex call) is   *)
(* one action; goroutine-local code (the call itself, tests on locals, the *)
(* reader's own d.readIndex) belongs to the action of a neighbouring       *)
(* access. The calls of Set in progress are a set of records: goroutines   *)
(* that are not inside Set are interchangeable.                            *)
(*                                                                         *)
(* uint64 values are held as the two's-complement signed reading of their  *)
(* 64 bits: ^uint64(0) is -1, and 1 - 4 is -3 (the pattern 2^64 - 3).      *)
(* Addition and subtraction are then the integer ones; the unsigned order  *)
(* and the unsigned remainder are UGt and UMod below.                      *)
(***************************************************************************)
EXTENDS Integers, Sequences, FiniteSets

\* ---- bounds of the model ------------------------------------------------
\* Capacities 1..MaxSize. Up to NumWriters goroutines call Set; a run with
\* NumWriters of them makes MaxSets calls of Set, and a run with fewer makes
\* one call more for each goroutine less. TryNext is called MaxReads times.
MaxSize == 2
NumWriters == 2
MaxSets == 3
MaxReads == 2

Sizes == 1..MaxSize
Writers == 1..NumWriters
SetsOf(nw) == MaxSets + (NumWriters - nw)

VARIABLES
    nWriters,    \* the number of goroutines that call Set in this run
    size,        \* len(d.buffer)
    writeIndex,  \* d.writeIndex
    buffer,      \* d.buffer: index 0..size-1 -> bucket pointer (Nil or a bucket)
    readIndex,   \* d.readIndex
    muReaders,   \* d.mu: the number of goroutines holding the shared lock
    muWriter,    \* d.mu: "free", "pending" (Lock called, waiting) or "held"
    calls,       \* the calls of Set in progress: position, data, writeIndex, old
    rpc,         \* the reader's position in TryNext
    rIdx,        \* TryNext's local idx
    rResult,     \* TryNext's local result
    alerts,      \* the arguments of d.alerter.Alert, in call order
    hist         \* history of the run (not program state)

vars == <<nWriters, size, writeIndex, buffer, readIndex, muReaders, muWriter,
          calls, rpc, rIdx, rResult, alerts, hist>>

\* ---- pointers and buckets -----------------------------------------------
\* A pointer is a bucket record; ptr is its address and 0 is the nil pointer.
Nil == [ptr |-> 0, seq |-> 0, data |-> 0]

IsNil(b) == b.ptr = 0

\* The addresses some goroutine or slot still refers to.
Live ==
    {buffer[i].ptr : i \in DOMAIN buffer}
        \cup {c.old.ptr : c \in calls} \cup {rResult.ptr}

\* &bucket{...}: an address no live pointer has (the collector never frees a
\* bucket that is still referred to).
FreshPtr == CHOOSE p \in 1..(MaxSize + NumWriters + 2) :
                /\ p \notin Live
                /\ \A q \in 1..(p - 1) : q \in Live

\* ---- uint64 arithmetic ----------------------------------------------------
\* a > b on uint64.
UGt(a, b) == IF (a < 0) = (b < 0) THEN a > b ELSE a < 0

\* 2^64 % n, by repeated squaring of 2^16 % n.
TwoTo64Mod(n) == LET r16 == 65536 % n
                     r32 == (r16 * r16) % n
                 IN  (r32 * r32) % n

\* a % n on uint64.
UMod(a, n) == IF a >= 0 THEN a % n ELSE (TwoTo64Mod(n) + (a % n)) % n

\* int(x) of a uint64 x on a 64-bit platform: the same bits, read signed.
ToInt(x) == x

\* ---- construction ---------------------------------------------------------
HistInit ==
    [ setsCalled  |-> 0,      \* calls of Set so far
      readsDone   |-> 0,      \* returns of TryNext so far
      claims      |-> << >>,  \* results of atomic.AddUint64, in order
      stored      |-> {},     \* <<seq, data>> of every bucket a Set installed
      nStored     |-> 0,      \* number of buckets installed
      returned    |-> << >>,  \* <<seq, data>> of every found = true result
      ranges      |-> << >>,  \* <<readIndex before, after>> of each catch-up
      interleaved |-> FALSE,  \* a Set ran during or after a TryNext
      nothing     |-> FALSE,  \* nothing was available when the running TryNext loaded the slot
      swapped     |-> FALSE ] \* TryNext's CompareAndSwapPointer changed a slot

NewManyToOne(n) ==
    /\ size = n
    /\ buffer = [i \in 0..(n - 1) |-> Nil]
    /\ readIndex = 0
    /\ writeIndex = -1
    /\ muReaders = 0
    /\ muWriter = "free"
    /\ alerts = << >>

Init ==
    /\ nWriters \in Writers
    /\ \E n \in Sizes : NewManyToOne(n)
    /\ calls = {}
    /\ rpc = "idle"
    /\ rIdx = 0
    /\ rResult = Nil
    /\ hist = HistInit

\* NewManyToOne does not look at size, and make([]unsafe.Pointer, 0) is a
\* valid (empty) slice: a caller can construct a diode of size 0 as well.
InitAnySize ==
    /\ nWriters \in Writers
    /\ \E n \in {0} \cup Sizes : NewManyToOne(n)
    /\ calls = {}
    /\ rpc = "idle"
    /\ rIdx = 0
    /\ rResult = Nil
    /\ hist = HistInit

dVars == <<nWriters, size, writeIndex, buffer, readIndex, muReaders, muWriter, alerts>>
rVars == <<rpc, rIdx, rResult>>

\* ---- Set -------------------------------------------------------------------
\* The data of the next call of Set. Set never looks into data (it is an
\* unsafe.Pointer it stores), so every call passes a value of its own: what
\* holds of distinct values holds of any.
NextData == hist.setsCalled + 1

\* A call of Set that has not returned: its position and its locals.
Call(pc, data, wi, old) == [pc |-> pc, data |-> data, writeIndex |-> wi, old |-> old]

\* Call c moves on to be call c2.
Step(c, c2) == calls' = (calls \ {c}) \cup {c2}

\* (mutant) RLock takes no notice of Lock.
RLockIgnoresLock == TRUE

\* d.mu.RLock() does not wait: sync.RWMutex admits a shared holder unless
\* Lock has been called and not yet undone by Unlock.
RLockFree == muWriter = "free"

\* Set is called with data d by a goroutine that is not in Set, and calls
\* d.mu.RLock(), which returns at once or waits (position "rlock") until
\* Unlock hands it the shared lock.
SetCall(d) ==
    /\ Cardinality(calls) < nWriters
    /\ hist.setsCalled < SetsOf(nWriters)
    /\ IF RLockFree
         THEN /\ muReaders' = muReaders + 1
              /\ calls' = calls \cup {Call("add", d, 0, Nil)}
         ELSE /\ muReaders' = muReaders
              /\ calls' = calls \cup {Call("rlock", d, 0, Nil)}
    /\ hist' = [hist EXCEPT !.setsCalled = @ + 1,
                            !.interleaved = @ \/ rpc # "idle" \/ hist.readsDone > 0]
    /\ UNCHANGED <<nWriters, size, writeIndex, buffer, readIndex, muWriter, alerts,
                   rVars>>

\* (mutant) the increment is lost once the counter has reached 1.
AddUint64Lost(v) == IF v < 1 THEN v + 1 ELSE v

\* atomic.AddUint64(&d.writeIndex, 1): the new value.
AddUint64(v) == v + 1

\* writeIndex := atomic.AddUint64(&d.writeIndex, 1), then idx, whose % panics
\* (integer divide by zero) when len(d.buffer) is 0.
SetAddUint64(c) ==
    /\ c.pc = "add"
    /\ writeIndex' = AddUint64(writeIndex)
    /\ Step(c, [c EXCEPT !.pc = IF size = 0 THEN "panic" ELSE "load",
                         !.writeIndex = AddUint64(writeIndex)])
    /\ hist' = [hist EXCEPT !.claims = Append(@, AddUint64(writeIndex))]
    /\ UNCHANGED <<nWriters, size, buffer, readIndex, muReaders, muWriter, alerts,
                   rVars>>

\* The test of Set's first if: old is a bucket whose seq is in range.
Collision(old, wi, n) == ~IsNil(old) /\ UGt(old.seq, wi - n)

\* old := atomic.LoadPointer(&d.buffer[idx]) and the test finds a collision:
\* continue.
SetLoadCollision(c) ==
    /\ c.pc = "load"
    /\ Collision(buffer[UMod(c.writeIndex, size)], c.writeIndex, size)
    /\ Step(c, [c EXCEPT !.pc = "add", !.writeIndex = 0])
    /\ UNCHANGED <<dVars, rVars, hist>>

\* old := atomic.LoadPointer(&d.buffer[idx]) and the test passes.
SetLoadPointer(c) ==
    /\ c.pc = "load"
    /\ ~Collision(buffer[UMod(c.writeIndex, size)], c.writeIndex, size)
    /\ Step(c, [c EXCEPT !.pc = "cas", !.old = buffer[UMod(c.writeIndex, size)]])
    /\ UNCHANGED <<dVars, rVars, hist>>

\* (mutant) seq is read from d.writeIndex again, not from the local.
NewBucketShared(d, wi) == [ptr |-> FreshPtr, seq |-> writeIndex, data |-> d]

\* newBucket := &bucket{data: data, seq: writeIndex}
NewBucket(d, wi) == [ptr |-> FreshPtr, seq |-> wi, data |-> d]

\* atomic.CompareAndSwapPointer(&d.buffer[idx], old, newBucket) succeeds.
SetCompareAndSwap(c) ==
    /\ c.pc = "cas"
    /\ buffer[UMod(c.writeIndex, size)].ptr = c.old.ptr
    /\ buffer' = [buffer EXCEPT ![UMod(c.writeIndex, size)] = NewBucket(c.data, c.writeIndex)]
    /\ Step(c, [c EXCEPT !.pc = "runlock", !.old = Nil])
    /\ hist' = [hist EXCEPT !.stored = @ \cup {<<c.writeIndex, c.data>>},
                            !.nStored = @ + 1]
    /\ UNCHANGED <<nWriters, size, writeIndex, readIndex, muReaders, muWriter, alerts,
                   rVars>>

\* atomic.CompareAndSwapPointer fails: continue.
SetCompareAndSwapFail(c) ==
    /\ c.pc = "cas"
    /\ buffer[UMod(c.writeIndex, size)].ptr # c.old.ptr
    /\ Step(c, [c EXCEPT !.pc = "add", !.writeIndex = 0, !.old = Nil])
    /\ UNCHANGED <<dVars, rVars, hist>>

\* (mutant) Set returns without d.mu.RUnlock().
SetReturnLocked(c) ==
    /\ c.pc = "runlock"
    /\ calls' = calls \ {c}
    /\ UNCHANGED <<nWriters, size, writeIndex, buffer, readIndex, muReaders, muWriter,
                   alerts, rVars, hist>>

\* d.mu.RUnlock(); return
SetRUnlock(c) ==
    /\ c.pc = "runlock"
    /\ muReaders' = muReaders - 1
    /\ calls' = calls \ {c}
    /\ UNCHANGED <<nWriters, size, writeIndex, buffer, readIndex, muWriter, alerts,
                   rVars, hist>>

\* ---- TryNext ---------------------------------------------------------------
\* No Set is running and every bucket in the buffer whose seq is not below
\* readIndex has been returned already.
NothingAvailable ==
    /\ calls = {}
    /\ \A i \in DOMAIN buffer :
          (~IsNil(buffer[i]) /\ ~UGt(readIndex, buffer[i].seq))
              => \E k \in DOMAIN hist.returned :
                    hist.returned[k] = <<buffer[i].seq, buffer[i].data>>

\* (mutant) >= for >.
LappedOrEqual(result, ri) == ~UGt(ri, result.seq)

\* (mutant) != for >.
LappedOrStale(result, ri) == result.seq # ri

\* The test of TryNext's second if: the writers have lapped the reader.
Lapped(result, ri) == UGt(result.seq, ri)

\* (mutant) the read index advances on an empty slot.
TryNextEmptyAdvances ==
    /\ rpc = "idle"
    /\ hist.readsDone < MaxReads
    /\ IsNil(buffer[UMod(readIndex, size)])
    /\ readIndex' = readIndex + 1
    /\ hist' = [hist EXCEPT !.readsDone = @ + 1,
                            !.interleaved = @ \/ calls # {}]
    /\ UNCHANGED <<nWriters, size, writeIndex, buffer, muReaders, muWriter, alerts,
                   calls, rpc, rIdx, rResult>>

\* TryNext is called: idx and the atomic.LoadPointer of result.
\* result == nil: return nil, false.
\* When len(d.buffer) is 0 the % of idx panics (integer divide by zero).
TryNextEmpty ==
    /\ rpc = "idle"
    /\ hist.readsDone < MaxReads
    /\ IF size = 0
         THEN /\ rpc' = "panic"
              /\ UNCHANGED <<dVars, calls, rIdx, rResult, hist>>
         ELSE /\ IsNil(buffer[UMod(readIndex, size)])
              /\ hist' = [hist EXCEPT !.readsDone = @ + 1,
                                      !.interleaved = @ \/ calls # {}]
              /\ UNCHANGED <<dVars, calls, rpc, rIdx, rResult>>

\* result != nil and result.seq > d.readIndex: go on to d.mu.Lock().
TryNextLapped ==
    /\ rpc = "idle"
    /\ hist.readsDone < MaxReads
    /\ size # 0
    /\ ~IsNil(buffer[UMod(readIndex, size)])
    /\ Lapped(buffer[UMod(readIndex, size)], readIndex)
    /\ rIdx' = UMod(readIndex, size)
    /\ rResult' = buffer[UMod(readIndex, size)]
    /\ rpc' = "lock"
    /\ hist' = [hist EXCEPT !.nothing = NothingAvailable,
                            !.interleaved = @ \/ calls # {}]
    /\ UNCHANGED <<dVars, calls>>

\* result != nil and not result.seq > d.readIndex: go on to the
\* CompareAndSwapPointer after the if.
TryNextLoad ==
    /\ rpc = "idle"
    /\ hist.readsDone < MaxReads
    /\ size # 0
    /\ ~IsNil(buffer[UMod(readIndex, size)])
    /\ ~Lapped(buffer[UMod(readIndex, size)], readIndex)
    /\ rIdx' = UMod(readIndex, size)
    /\ rResult' = buffer[UMod(readIndex, size)]
    /\ rpc' = "cas"
    /\ hist' = [hist EXCEPT !.nothing = NothingAvailable,
                            !.interleaved = @ \/ calls # {}]
    /\ UNCHANGED <<dVars, calls>>

\* d.mu.Lock(): announces the exclusive locker, which stops new RLocks, and
\* has the lock at once when no goroutine holds it shared.
TryNextLock ==
    /\ rpc = "lock"
    /\ IF muReaders = 0
         THEN muWriter' = "held" /\ rpc' = "dropped"
         ELSE muWriter' = "pending" /\ rpc' = "lockwait"
    /\ UNCHANGED <<nWriters, size, writeIndex, buffer, readIndex, muReaders, alerts,
                   calls, rIdx, rResult, hist>>

\* d.mu.Lock() returns once the last shared holder has called RUnlock.
TryNextLockWait ==
    /\ rpc = "lockwait"
    /\ muReaders = 0
    /\ muWriter' = "held"
    /\ rpc' = "dropped"
    /\ UNCHANGED <<nWriters, size, writeIndex, buffer, readIndex, muReaders, alerts,
                   calls, rIdx, rResult, hist>>

\* (mutant) the capacity is not subtracted.
DroppedWithoutCapacity(wi, ri, n) == (wi + 1) - ri

\* dropped := (d.writeIndex + 1) - d.readIndex - uint64(len(d.buffer))
Dropped(wi, ri, n) == (wi + 1) - ri - n

\* dropped is computed and d.alerter.Alert(int(dropped)) is called.
TryNextAlert ==
    /\ rpc = "dropped"
    /\ alerts' = Append(alerts, ToInt(Dropped(writeIndex, readIndex, size)))
    /\ rpc' = "reset"
    /\ UNCHANGED <<nWriters, size, writeIndex, buffer, readIndex, muReaders, muWriter,
                   calls, rIdx, rResult, hist>>

\* d.readIndex = (d.writeIndex + 1) - uint64(len(d.buffer))
CatchUp(wi, n) == (wi + 1) - n

\* d.readIndex is reset, idx recomputed and result reloaded.
TryNextReset ==
    /\ rpc = "reset"
    /\ readIndex' = CatchUp(writeIndex, size)
    /\ rIdx' = UMod(CatchUp(writeIndex, size), size)
    /\ rResult' = buffer[UMod(CatchUp(writeIndex, size), size)]
    /\ rpc' = "unlock"
    /\ hist' = [hist EXCEPT !.ranges = Append(@, <<readIndex, CatchUp(writeIndex, size)>>)]
    /\ UNCHANGED <<nWriters, size, writeIndex, buffer, muReaders, muWriter, alerts,
                   calls>>

\* The calls of Set after Unlock: those waiting in RLock hold the shared lock.
Woken == {IF c.pc = "rlock" THEN [c EXCEPT !.pc = "add"] ELSE c : c \in calls}

\* (mutant) Unlock leaves the goroutines waiting in RLock asleep.
TryNextUnlockNoWake ==
    /\ rpc = "unlock"
    /\ muWriter' = "free"
    /\ rpc' = "cas"
    /\ UNCHANGED <<nWriters, size, writeIndex, buffer, readIndex, muReaders, alerts,
                   calls, rIdx, rResult, hist>>

\* d.mu.Unlock(): sync.RWMutex hands the lock to every goroutine waiting in
\* RLock.
TryNextUnlock ==
    /\ rpc = "unlock"
    /\ muWriter' = "free"
    /\ muReaders' = muReaders + Cardinality({c \in calls : c.pc = "rlock"})
    /\ calls' = Woken
    /\ rpc' = "cas"
    /\ UNCHANGED <<nWriters, size, writeIndex, buffer, readIndex, alerts,
                   rIdx, rResult, hist>>

\* atomic.CompareAndSwapPointer(&d.buffer[idx], nil, result): the slot after it.
\* (mutant) CompareAndSwapPointer(&d.buffer[idx], result, nil).
SwapIfResult(slot, result) == IF slot.ptr = result.ptr THEN Nil ELSE slot

SwapIfNil(slot, result) == IF IsNil(slot) THEN result ELSE slot

\* The CompareAndSwapPointer, d.readIndex++ and return result.data, true;
\* with result == nil the evaluation of result.data panics and TryNext does
\* not return.
TryNextReturn ==
    /\ rpc = "cas"
    /\ buffer' = [buffer EXCEPT ![rIdx] = SwapIfNil(@, rResult)]
    /\ readIndex' = readIndex + 1
    /\ IF IsNil(rResult)
         THEN /\ rpc' = "panic"
              /\ UNCHANGED <<rIdx, rResult, hist>>
         ELSE /\ rpc' = "idle"
              /\ rIdx' = 0
              /\ rResult' = Nil
              /\ hist' = [hist EXCEPT !.readsDone = @ + 1,
                                      !.nothing = FALSE,
                                      !.returned = Append(@, <<rResult.seq, rResult.data>>),
                                      !.swapped = @ \/ buffer'[rIdx] # buffer[rIdx]]
    /\ UNCHANGED <<nWriters, size, writeIndex, muReaders, muWriter, alerts, calls>>

Next ==
    \/ SetCall(NextData)
    \/ \E c \in calls : SetAddUint64(c)
    \/ \E c \in calls : SetLoadCollision(c)
    \/ \E c \in calls : SetLoadPointer(c)
    \/ \E c \in calls : SetCompareAndSwap(c)
    \/ \E c \in calls : SetCompareAndSwapFail(c)
    \/ \E c \in calls : SetRUnlock(c)
    \/ TryNextEmpty
    \/ TryNextLapped
    \/ TryNextLoad
    \/ TryNextLock
    \/ TryNextLockWait
    \/ TryNextAlert
    \/ TryNextReset
    \/ TryNextUnlock
    \/ TryNextReturn

Spec == Init /\ [][Next]_vars

\* The runs of a diode of any size NewManyToOne constructs, 0 included.
SpecAnySize == InitAnySize /\ [][Next]_vars

\* The steps of a call of Set that is past d.mu.RLock().
SetStep(c) ==
    \/ SetAddUint64(c)
    \/ SetLoadCollision(c)
    \/ SetLoadPointer(c)
    \/ SetCompareAndSwap(c)
    \/ SetCompareAndSwapFail(c)
    \/ SetRUnlock(c)

\* The steps of a call of TryNext that has loaded a bucket.
TryNextStep ==
    \/ TryNextLock
    \/ TryNextLockWait
    \/ TryNextAlert
    \/ TryNextReset
    \/ TryNextUnlock
    \/ TryNextReturn

\* The data values of the calls of Set a run can make.
AllData == 1..SetsOf(1)

\* The scheduler runs every goroutine that can run: weak fairness for the
\* reader and for each call of Set.
FairSpec ==
    /\ Spec
    /\ WF_vars(TryNextStep)
    /\ \A d \in AllData : WF_vars(\E c \in calls : c.data = d /\ SetStep(c))

\* ---- what a run has shown -------------------------------------------------
RECURSIVE SumSeq(_)
SumSeq(q) == IF q = << >> THEN 0 ELSE Head(q) + SumSeq(Tail(q))

ReturnedSet == {hist.returned[k] : k \in DOMAIN hist.returned}

\* A call of TryNext returns in this step, with found = true / false.
TryNextReturns == hist.readsDone' = hist.readsDone + 1
ReturnsFound == TryNextReturns /\ Len(hist.returned') = Len(hist.returned) + 1
ReturnsNotFound == TryNextReturns /\ hist.returned' = hist.returned

\* The reader takes a step.
ReaderSteps == rpc' # rpc \/ TryNextReturns

\* ---- C1 ---------------------------------------------------------------------
\* C1: the sequence numbers of the values that successive successful TryNext
\* calls return are strictly increasing (none out of order, none twice).
C1_ReturnedStrictlyIncreasing ==
    \A i, j \in DOMAIN hist.returned :
        i < j => hist.returned[i][1] < hist.returned[j][1]

\* ---- C2 ---------------------------------------------------------------------
\* C2: a TryNext that loads its slot when no Set is in progress and every
\* buffered value with seq >= readIndex has been returned already returns
\* found = false.
C2_NothingAvailableNotFound ==
    [][(TryNextReturns /\ (IF rpc = "idle" THEN NothingAvailable ELSE hist.nothing))
          => ReturnsNotFound]_vars

\* ---- C3 ---------------------------------------------------------------------
\* m > N sequential Sets on a fresh diode, then one TryNext and nothing else.
OverrunRun ==
    /\ nWriters = 1
    /\ ~hist.interleaved
    /\ calls = {}
    /\ hist.setsCalled > size
    /\ hist.readsDone = 1
    /\ rpc = "idle"

\* C3: after m > N sequential Sets with no read in between, one TryNext
\* returns the value written at sequence m - N (that of Set call m - N + 1),
\* and the alerter has been called exactly once, with m - N.
C3_OverrunAccounting ==
    OverrunRun =>
        /\ hist.returned = << <<hist.setsCalled - size, hist.setsCalled - size + 1>> >>
        /\ hist.returned[1] \in hist.stored
        /\ alerts = << hist.setsCalled - size >>

C3_Witness == OverrunRun /\ size = 2 /\ hist.setsCalled = 4 /\ alerts = <<2>>

\* ---- C4 ---------------------------------------------------------------------
\* k <= N Sets completed on a fresh diode, then up to k TryNexts, nothing else.
UnderCapacityRun ==
    /\ ~hist.interleaved
    /\ calls = {}
    /\ hist.setsCalled <= size
    /\ hist.readsDone <= hist.setsCalled
    /\ rpc = "idle"

\* C4: after k <= N completed Sets with no read in between, the TryNexts that
\* follow (up to k of them) each return found = true, the values stored with
\* sequence numbers 0, 1, ... in that order, and the alerter is not called.
C4_FifoUnderCapacity ==
    UnderCapacityRun =>
        /\ Len(hist.returned) = hist.readsDone
        /\ \A i \in DOMAIN hist.returned :
              hist.returned[i][1] = i - 1 /\ hist.returned[i] \in hist.stored
        /\ {p[1] : p \in hist.stored} = 0..(hist.setsCalled - 1)
        /\ Cardinality(hist.stored) = hist.setsCalled
        /\ alerts = << >>

\* Two concurrent Sets, the second call claiming sequence 0, then two reads.
C4_Witness ==
    /\ UnderCapacityRun
    /\ size = 2
    /\ hist.returned = << <<0, 2>>, <<1, 1>> >>

\* ---- C5 ---------------------------------------------------------------------
\* C5: a TryNext that finds the slot at readIndex % N empty returns
\* (nil, false) at once and changes neither cursor, no slot and no alert; and
\* as long as no Set has stored a value no TryNext has returned found = true.
C5_EmptyReadChangesNothing ==
    /\ [][(rpc = "idle" /\ IsNil(buffer[UMod(readIndex, size)]) /\ ReaderSteps)
            => /\ ReturnsNotFound
               /\ rpc' = "idle"
               /\ UNCHANGED <<readIndex, writeIndex, buffer, alerts>>]_vars
    /\ [](hist.stored = {} => hist.returned = << >>)

\* A value was read, and the next TryNext found the second slot empty.
C5_Witness ==
    /\ rpc = "idle"
    /\ size = 2
    /\ hist.readsDone = 2
    /\ Len(hist.returned) = 1
    /\ readIndex = 1
    /\ IsNil(buffer[1])

\* ---- C6 ---------------------------------------------------------------------
\* C6: with no Set (and no TryNext) in progress, the counts passed to the
\* alerter add up to the number of stored values with seq < readIndex that no
\* TryNext has returned.
C6_LossAccountingExact ==
    (calls = {} /\ rpc = "idle") =>
        SumSeq(alerts) =
            Cardinality({p \in hist.stored : p[1] < readIndex /\ p \notin ReturnedSet})

C8_NeverBlocks ==
    /\ \A c \in calls : ENABLED SetStep(c)
    /\ rpc # "idle" => ENABLED TryNextStep

HoldsShared(c) == c.pc \in {"add", "load", "cas", "runlock"}

\* C8 (amended): a thread waits only in d.mu. A Set waits in RLock only while
\* TryNext is between Lock and Unlock; TryNext waits in Lock only while a Set
\* holds the shared lock; every other thread inside Set or TryNext has an
\* enabled next step, so the thread waited for always has one.
C8_WaitsOnlyInMutex ==
    /\ \A c \in calls : c.pc # "rlock" => ENABLED SetStep(c)
    /\ \A c \in calls : c.pc = "rlock" =>
          /\ muWriter \in {"pending", "held"}
          /\ rpc \in {"lockwait", "dropped", "reset", "unlock"}
    /\ (rpc # "idle" /\ ~ENABLED TryNextStep) =>
          /\ rpc = "lockwait"
          /\ muReaders > 0
          /\ muReaders = Cardinality({c \in calls : HoldsShared(c)})

\* TryNext waits in Lock for a Set that holds the shared lock, and another Set
\* waits in RLock behind it.
C8_Witness ==
    /\ rpc = "lockwait"
    /\ \E c \in calls : c.pc = "rlock"
    /\ \E c \in calls : HoldsShared(c)

\* ---- C9 ---------------------------------------------------------------------
\* C9: every call of Set returns, its value stored in a slot by then.
C9_SetReturns ==
    \A d \in AllData :
        (\E c \in calls : c.data = d)
            ~> ((\A c \in calls : c.data # d) /\ (\E p \in hist.stored : p[2] = d))

\* All the Sets of a run have returned and two of them had to retry.
C9_Witness ==
    /\ calls = {}
    /\ hist.setsCalled = SetsOf(nWriters)
    /\ Len(hist.claims) >= hist.setsCalled + 2

\* ---- C10 --------------------------------------------------------------------
\* C10: no two increments of writeIndex yield the same sequence number and no
\* two buckets ever stored carry the same sequence number.
C10_UniqueSequence ==
    /\ \A i, j \in DOMAIN hist.claims : i < j => hist.claims[i] # hist.claims[j]
    /\ Cardinality({p[1] : p \in hist.stored}) = hist.nStored
    /\ \A i, j \in DOMAIN buffer :
          (i # j /\ ~IsNil(buffer[i]) /\ ~IsNil(buffer[j]))
              => buffer[i].seq # buffer[j].seq

\* Concurrent Sets with a retry: four sequence numbers claimed, three stored.
C10_Witness ==
    /\ nWriters = 2
    /\ hist.nStored = 3
    /\ Len(hist.claims) = 4

\* ---- C11 --------------------------------------------------------------------
\* The <<seq, data>> of a bucket, and the buckets a goroutine can see.
Pair(b) == <<b.seq, b.data>>
Visible == {buffer[i] : i \in DOMAIN buffer} \cup {rResult} \cup {c.old : c \in calls}

\* C11: every value TryNext returns was passed to a Set, with the seq that
\* Set had claimed in the iteration that stored it: every bucket seen or
\* returned is a pair some Set stored, a Set stores its data once, and no seq
\* is stored with two data values.
C11_NoTornReads ==
    /\ \A k \in DOMAIN hist.returned : hist.returned[k] \in hist.stored
    /\ \A b \in Visible : ~IsNil(b) => Pair(b) \in hist.stored
    /\ \A p \in hist.stored :
          /\ \E k \in DOMAIN hist.claims : hist.claims[k] = p[1]
          /\ p[2] \in 1..hist.setsCalled
    /\ \A p, q \in hist.stored : (p[1] = q[1] \/ p[2] = q[2]) => p = q

\* Two writers ran concurrently, the later call took the earlier seq, and its
\* value has been returned.
C11_Witness ==
    /\ nWriters = 2
    /\ \E k \in DOMAIN hist.returned : hist.returned[k] = <<0, 2>>
    /\ <<1, 1>> \in hist.stored

\* ---- C12 --------------------------------------------------------------------
\* C12: NewManyToOne(0, alerter) yields no diode on which Set or TryNext can
\* be called: no call is ever made on a diode of size 0.
C12_ZeroCapacityRefused ==
    size = 0 => (calls = {} /\ rpc = "idle" /\ hist.setsCalled = 0)

\* ---- C13 --------------------------------------------------------------------
\* C13: a Set never overwrites newer data: the seq a slot holds never
\* decreases, so a slot holds the highest seq ever stored at its index.
C13_NeverOverwritesNewer ==
    \A p \in hist.stored :
        /\ ~IsNil(buffer[UMod(p[1], size)])
        /\ ~UGt(p[1], buffer[UMod(p[1], size)].seq)

\* ---- C14 --------------------------------------------------------------------
\* C14: after a catch-up the read index is (writeIndex + 1) - size and the
\* bucket TryNext goes on to return has exactly that seq.
C14_CatchUpReturnsOldest ==
    rpc = "unlock" =>
        /\ readIndex = CatchUp(writeIndex, size)
        /\ ~IsNil(rResult)
        /\ rResult.seq = readIndex

\* ---- C15 --------------------------------------------------------------------
\* The last element of a non-empty sequence.
Last(q) == q[Len(q)]

\* C15: while TryNext holds d.mu exclusively no Set holds it shared; the
\* writeIndex that dropped was computed from is the one the read index is
\* reset from, and the reloaded slot is the one in the buffer.
C15_CatchUpSerialized ==
    /\ muWriter = "held" =>
          /\ rpc \in {"dropped", "reset", "unlock"}
          /\ muReaders = 0
          /\ \A c \in calls : ~HoldsShared(c)
    /\ rpc = "reset" =>
          Last(alerts) = ToInt(Dropped(writeIndex, readIndex, size))
    /\ rpc = "unlock" =>
          /\ readIndex = CatchUp(writeIndex, size)
          /\ Last(alerts) = readIndex - Last(hist.ranges)[1]
          /\ rIdx = UMod(readIndex, size)
          /\ rResult = buffer[rIdx]

\* A Set was called during the catch-up and waits in RLock.
C15_Witness ==
    /\ rpc = "unlock"
    /\ \E c \in calls : c.pc = "rlock"

\* ---- C16 --------------------------------------------------------------------
\* C16: every Alert gets a count that is not negative: in the catch-up branch
\* writeIndex + 1 >= readIndex + size on uint64.
C16_DroppedNotNegative ==
    /\ \A k \in DOMAIN alerts : alerts[k] >= 0
    /\ rpc \in {"lock", "lockwait", "dropped"} =>
          /\ ~UGt(readIndex + size, writeIndex + 1)
          /\ Dropped(writeIndex, readIndex, size) >= 0

\* Alert has just been called with 2 in a run with two writers.
C16_Witness ==
    /\ nWriters = 2
    /\ rpc = "reset"
    /\ alerts = <<2>>

\* ---- C17 --------------------------------------------------------------------
\* C17: TryNext does not advance the read index, nor return found = true, on
\* a slot whose seq is smaller than the read index.
C17_NoAdvanceOnStale ==
    [][(rpc = "cas" /\ readIndex' = readIndex + 1) => ~UGt(readIndex, rResult.seq)]_vars

C19_ReloadOccupied ==
    /\ rpc # "panic"
    /\ rpc \in {"unlock", "cas"} => ~IsNil(rResult)

\* A catch-up has reloaded its slot in a run where a Set gave up a seq.
C19_Witness ==
    /\ rpc = "unlock"
    /\ Len(hist.claims) > hist.nStored

\* ---- C20 --------------------------------------------------------------------
\* C20: the reader never runs ahead of the writers:
\* readIndex <= writeIndex + 1.
C20_ReaderNotAhead == readIndex <= writeIndex + 1

====
